---- MODULE Spec2Model ----
(***************************************************************************)
(* Model of scripts/dep_parse.py: the VHDL dependency graph (_DiGraph),    *)
(* its construction from the design units each file defines and uses       *)
(* (parse), the pruning of always-available libraries (remove), the        *)
(* wildcard resolution (resolve) and the emission of Makefile rules        *)
(* (write_makefile_rules).                                                 *)
(*                                                                         *)
(* Identifiers are sequences of one-character strings, so that lower(),    *)
(* startswith(), replace() and the regular-expression search of            *)
(* _is_refering_to are computed character by character.  The edge list is  *)
(* kept up to order, as a bag: every append is counted.                    *)
(***************************************************************************)
EXTENDS Bags, FiniteSets, Integers, Sequences, TLC

\* Bound on the number of parse()/remove()/resolve() calls of one run.
MaxCalls == 4

----------------------------------------------------------------------------
(* Strings *)

None == "None"

Dot(a, b) == a \o <<".">> \o b

LowerChar(ch) ==
    CASE ch = "C" -> "c"
      [] ch = "W" -> "w"
      [] OTHER -> ch

lower(s) == [i \in 1..Len(s) |-> LowerChar(s[i])]

contains(s, sub) ==
    \E i \in 1..(Len(s) - Len(sub) + 1) : SubSeq(s, i, i + Len(sub) - 1) = sub

startswith(s, prefix) ==
    Len(s) >= Len(prefix) /\ SubSeq(s, 1, Len(prefix)) = prefix

count(s, ch) == Cardinality({i \in 1..Len(s) : s[i] = ch})

\* str.replace("*", "ANY")
RECURSIVE replace_star(_)
replace_star(s) ==
    IF s = <<>> THEN <<>>
    ELSE (IF Head(s) = "*" THEN <<"A", "N", "Y">> ELSE <<Head(s)>>)
         \o replace_star(Tail(s))

\* re.match(pattern, s): the pattern u.replace(".", "\.").replace("*", ".+")
\* matches a prefix of s.  Every character of u but "*" is a literal, "*" is
\* one or more arbitrary characters.
RECURSIVE re_match(_, _)
re_match(u, s) ==
    IF u = <<>> THEN TRUE
    ELSE IF Head(u) = "*"
         THEN \E k \in 1..Len(s) : re_match(Tail(u), SubSeq(s, k + 1, Len(s)))
         ELSE /\ s # <<>>
              /\ Head(s) = Head(u)
              /\ re_match(Tail(u), Tail(s))

\* re.search(pattern, s): the pattern matches at some position of s.
re_search(u, s) ==
    \E k \in 0..Len(s) : re_match(u, SubSeq(s, k + 1, Len(s)))

\* The same pattern anchored at both ends of s (re.fullmatch).
RECURSIVE re_fullmatch(_, _)
re_fullmatch(u, s) ==
    IF u = <<>> THEN s = <<>>
    ELSE IF Head(u) = "*"
         THEN \E k \in 1..Len(s) :
                 re_fullmatch(Tail(u), SubSeq(s, k + 1, Len(s)))
         ELSE /\ s # <<>>
              /\ Head(s) = Head(u)
              /\ re_fullmatch(Tail(u), Tail(s))

----------------------------------------------------------------------------
(* The source files: each is the library it is globbed for and the          *)
(* constructs its text holds, one kind of construct per regular expression. *)

Stmt(k, library, name, sub) ==
    [k |-> k, library |-> library, name |-> name, sub |-> sub]

PackageDef(name)        == Stmt("package", <<>>, name, <<>>)
PackageBodyDef(name)    == Stmt("package_body", <<>>, name, <<>>)
EntityDef(name)         == Stmt("entity", <<>>, name, <<>>)
ArchDef(name, entity)   == Stmt("architecture", <<>>, entity, name)
PackageUse(lib, name)   == Stmt("use", lib, name, <<>>)
EntityUse(lib, name, a) == Stmt("entity_use", lib, name, a)
ComponentUse(name)      == Stmt("component", <<>>, name, <<>>)
Vunit(name, entity, a)  == Stmt("vunit", <<>>, entity, <<a, name>>)

Files == {"counter.vhd", "behav.vhd", "top.vhd", "user.vhd", "tb_bad.vhd",
          "counter_alt.vhd", "lib.vhd", "check.psl"}

Library(file) ==
    IF file = "lib.vhd" THEN <<"x", "w">> ELSE <<"w">>

Source(file) ==
    CASE file = "counter.vhd" ->
           {EntityDef(<<"c">>), ArchDef(<<"r">>, <<"c">>)}
      [] file = "behav.vhd" ->
           {PackageUse(<<"s">>, <<"p">>), ArchDef(<<"b">>, <<"C">>)}
      [] file = "top.vhd" ->
           {PackageUse(<<"i">>, <<"p">>), EntityDef(<<"t">>),
            ArchDef(<<"r">>, <<"t">>), ComponentUse(<<"c">>)}
      [] file = "user.vhd" ->
           {EntityDef(<<"u">>), EntityUse(<<"W">>, <<"c">>, <<"r">>)}
      [] file = "tb_bad.vhd" ->
           {EntityDef(<<"d">>), EntityUse(<<"w">>, <<"m">>, <<>>)}
      [] file = "counter_alt.vhd" ->
           {PackageDef(<<"p">>), PackageBodyDef(<<"p">>), EntityDef(<<"c">>)}
      [] file = "lib.vhd" ->
           {EntityDef(<<"c">>), ArchDef(<<"r">>, <<"c">>)}
      [] file = "check.psl" ->
           {Vunit(<<"v">>, <<"c">>, <<>>)}

\* re.search(TESTBENCH_FILE_REGEX, obj_file): "_tb." or "/tb_" in the path
IsTestbench(file) == file \in {"tb_bad.vhd"}

StdUnits == {<<"i">>, <<"s">>}

----------------------------------------------------------------------------
(* Extractor *)

_parse_src_to_defines(src, library) ==
    {Dot(library, s.name) : s \in {x \in src : x.k \in {"package", "entity"}}}

OrStar(x) == IF x = <<>> THEN <<"*">> ELSE x

_parse_src_to_uses(src) ==
    {Dot(s.library, s.name) : s \in {x \in src : x.k = "use"}}
    \cup {IF s.sub # <<>>
          THEN Dot(Dot(OrStar(s.library), s.name), s.sub)
          ELSE Dot(OrStar(s.library), s.name) :
          s \in {x \in src : x.k \in {"entity_use", "component"}}}

_parse_src_to_defines_and_uses(src, library) ==
    <<   {Dot(Dot(library, s.name), <<"b", "o", "d", "y">>) :
             s \in {x \in src : x.k = "package_body"}}
    \cup {Dot(Dot(library, s.name), s.sub) :
             s \in {x \in src : x.k = "architecture"}}
    \cup {Dot(Dot(Dot(library, s.name), OrStar(s.sub[1])), s.sub[2]) :
             s \in {x \in src : x.k = "vunit"}},
         {Dot(library, s.name) :
             s \in {x \in src : x.k \in {"package_body", "architecture"}}}
    \cup {Dot(Dot(<<"*">>, s.name), OrStar(s.sub[1])) :
             s \in {x \in src : x.k = "vunit"}} >>

_parse_file(file) ==
    LET comb == _parse_src_to_defines_and_uses(Source(file), Library(file))
    IN  << _parse_src_to_defines(Source(file), Library(file)) \cup comb[1],
           _parse_src_to_uses(Source(file)) \cup comb[2] >>

----------------------------------------------------------------------------
(* _DiGraph: nodes is the dict id -> kwargs, kwargs a set of <<key, value>>; *)
(* edges is the list of (from, to) pairs, counted.                          *)

Graph(ns, es) == [nodes |-> ns, edges |-> es]

has_key(kwargs, key) == \E kv \in kwargs : kv[1] = key

get(kwargs, key) ==
    IF has_key(kwargs, key)
    THEN (CHOOSE kv \in kwargs : kv[1] = key)[2]
    ELSE None

\* self.nodes[node] = kwargs: the entry of node is set, the others are kept
add_node(g, node, kwargs) ==
    Graph((node :> kwargs) @@ g.nodes, g.edges)

remove_node(g, node) ==
    Graph([n \in DOMAIN g.nodes \ {node} |-> g.nodes[n]],
          [e \in {x \in DOMAIN g.edges : x[1] # node /\ x[2] # node} |->
              g.edges[e]])

\* add_edge that calls add_node without the membership test
add_edge_overwrite(g, node_from, node_to) ==
    LET g1 == add_node(g, node_from, {})
        g2 == add_node(g1, node_to, {})
    IN  Graph(g2.nodes, g2.edges (+) SetToBag({<<node_from, node_to>>}))

add_edge(g, node_from, node_to) ==
    LET g1 == IF node_from \in DOMAIN g.nodes THEN g
              ELSE add_node(g, node_from, {})
        g2 == IF node_to \in DOMAIN g1.nodes THEN g1
              ELSE add_node(g1, node_to, {})
    IN  Graph(g2.nodes, g2.edges (+) SetToBag({<<node_from, node_to>>}))

out_edges(g, node) ==
    [e \in {x \in DOMAIN g.edges : x[1] = node} |-> g.edges[e]]

----------------------------------------------------------------------------
(* VHDLDependencyParser *)

\* the body of the inner loop without the "if p == u: continue"
parse_use_noskip(g, p, u) == add_edge(g, p, u)

parse_use(g, p, u) == IF p = u THEN g ELSE add_edge(g, p, u)

RECURSIVE parse_uses(_, _, _)
parse_uses(g, p, uses) ==
    IF uses = {} THEN g
    ELSE LET use == CHOOSE x \in uses : TRUE
         IN  parse_uses(parse_use(g, p, lower(use)), p, uses \ {use})

RECURSIVE parse_provides(_, _, _, _)
parse_provides(g, file, provides, uses) ==
    IF provides = {} THEN g
    ELSE LET provide == CHOOSE x \in provides : TRUE
             p  == lower(provide)
             g1 == add_node(g, p, {<<"file", file>>})
             g2 == parse_uses(g1, p, uses)
             g3 == IF count(p, ".") = 1
                   THEN add_node(g2, Dot(p, <<"*">>), {})
                   ELSE g2
         IN  parse_provides(g3, file, provides \ {provide}, uses)

parse(g, file) ==
    LET pu == _parse_file(file)
    IN  parse_provides(g, file, pu[1], pu[2])

\* _is_refering_to with re.fullmatch in the place of re.search
_is_refering_to_anchored(u, v) ==
    IF contains(u, <<"*">>) /\ ~contains(v, <<"*">>)
    THEN re_fullmatch(u, v)
    ELSE FALSE

\* _is_refering_to without the test that v holds no wildcard
_is_refering_to_any_target(u, v) ==
    IF contains(u, <<"*">>)
    THEN re_search(u, v)
    ELSE FALSE

_is_refering_to(u, v) ==
    IF contains(u, <<"*">>) /\ ~contains(v, <<"*">>)
    THEN re_search(u, v)
    ELSE FALSE

RECURSIVE add_edges(_, _)
add_edges(g, pairs) ==
    IF pairs = {} THEN g
    ELSE LET e == CHOOSE x \in pairs : TRUE
         IN  add_edges(add_edge(g, e[1], e[2]), pairs \ {e})

\* resolve that passes the two nodes to add_edge in the wrong order
resolve_swapped(g) ==
    LET copy == DOMAIN g.nodes
    IN  add_edges(g, {<<e[2], e[1]>> :
                         e \in {x \in copy \X copy : _is_refering_to(x[1], x[2])}})

resolve(g) ==
    LET copy == DOMAIN g.nodes
    IN  add_edges(g, {e \in copy \X copy : _is_refering_to(e[1], e[2])})

RECURSIVE remove_nodes(_, _)
remove_nodes(g, ns) ==
    IF ns = {} THEN g
    ELSE LET n == CHOOSE x \in ns : TRUE
         IN  remove_nodes(remove_node(g, n), ns \ {n})

\* remove with all() in the place of any()
remove_all(g, units) ==
    LET copy == DOMAIN g.nodes
    IN  remove_nodes(g, {n \in copy :
                            \A unit \in units : startswith(n, unit \o <<".">>)})

remove(g, units) ==
    LET copy == DOMAIN g.nodes
    IN  remove_nodes(g, {n \in copy :
                            \E unit \in units : startswith(n, unit \o <<".">>)})

\* one iteration of the loop of write_makefile_rules
ObjFile(node) ==
    IF has_key(node, "file") THEN <<"obj/", get(node, "file"), ".o">> ELSE <<>>

\* the warning test without the "ANY" part
IsIgnored_nofile(g, n) == ObjFile(g.nodes[n]) = <<>>

IsIgnored(g, n) ==
    ~contains(replace_star(n), <<"A", "N", "Y">>) /\ ObjFile(g.nodes[n]) = <<>>

DuRule(g, n) ==
    [target |-> <<"du/">> \o replace_star(n), prereq |-> ObjFile(g.nodes[n])]

\* the prerequisites without the same-file test
ObjDeps_nofilter(g, n) ==
    LET outs == out_edges(g, n)
    IN  [t \in {<<"du/">> \o replace_star(e[2]) : e \in DOMAIN outs} |->
            outs[CHOOSE e \in DOMAIN outs : <<"du/">> \o replace_star(e[2]) = t]]

ObjDeps(g, n) ==
    LET outs == out_edges(g, n)
        deps == {e \in DOMAIN outs :
                    get(g.nodes[n], "file") # get(g.nodes[e[2]], "file")}
    IN  [t \in {<<"du/">> \o replace_star(e[2]) : e \in deps} |->
            outs[CHOOSE e \in deps : <<"du/">> \o replace_star(e[2]) = t]]

ObjRule(g, n) ==
    [target |-> ObjFile(g.nodes[n]), prereqs |-> ObjDeps(g, n)]

GroupLine(g, n) ==
    [var |-> IF IsTestbench(get(g.nodes[n], "file")) THEN "OBJS_TB" ELSE "OBJS",
     obj |-> ObjFile(g.nodes[n])]

RECURSIVE write_makefile_rules(_, _, _)
write_makefile_rules(g, ns, o) ==
    IF ns = {} THEN o
    ELSE LET n == CHOOSE x \in ns : TRUE
             o1 == IF IsIgnored(g, n)
                   THEN [o EXCEPT !.err = @ (+) SetToBag({replace_star(n)})]
                   ELSE IF ObjFile(g.nodes[n]) = <<>>
                   THEN [o EXCEPT !.du = @ (+) SetToBag({DuRule(g, n)})]
                   ELSE [o EXCEPT !.du = @ (+) SetToBag({DuRule(g, n)}),
                                  !.obj = @ (+) SetToBag({ObjRule(g, n)}),
                                  !.objs = @ (+) SetToBag({GroupLine(g, n)})]
         IN  write_makefile_rules(g, ns \ {n}, o1)

NoOutput == [du |-> EmptyBag, obj |-> EmptyBag, objs |-> EmptyBag,
             err |-> EmptyBag]

----------------------------------------------------------------------------
(* State machine: the calls made on one VHDLDependencyParser.  history is   *)
(* the sequence of calls made so far; write_makefile_rules() is the last    *)
(* call of a run, as in the script's main part.                             *)

VARIABLES nodes, edges, history, out

vars == <<nodes, edges, history, out>>

_dep_graph == Graph(nodes, edges)

Call(op, file) == [op |-> op, file |-> file]

lastOp == IF history = << >> THEN "init" ELSE history[Len(history)].op

\* the files parsed so far, in the order of the parse() calls
parsed ==
    LET ps == SelectSeq(history, LAMBDA c : c.op = "parse")
    IN  [i \in 1..Len(ps) |-> ps[i].file]

Range(s) == {s[i] : i \in 1..Len(s)}

Init ==
    /\ nodes = << >>
    /\ edges = EmptyBag
    /\ history = << >>
    /\ out = NoOutput

CanCall == lastOp # "write" /\ Len(history) < MaxCalls

Parse ==
    /\ CanCall
    /\ \E file \in Files \ Range(parsed) :
          LET g == parse(_dep_graph, file)
          IN  /\ nodes' = g.nodes
              /\ edges' = g.edges
              /\ history' = Append(history, Call("parse", file))
    /\ UNCHANGED out

Resolve ==
    /\ CanCall
    /\ LET g == resolve(_dep_graph)
       IN  /\ nodes' = g.nodes
           /\ edges' = g.edges
    /\ history' = Append(history, Call("resolve", None))
    /\ UNCHANGED out

Remove ==
    /\ CanCall
    /\ LET g == remove(_dep_graph, StdUnits)
       IN  /\ nodes' = g.nodes
           /\ edges' = g.edges
    /\ history' = Append(history, Call("remove", None))
    /\ UNCHANGED out

Write ==
    /\ lastOp # "write"
    /\ out' = write_makefile_rules(_dep_graph, DOMAIN nodes, NoOutput)
    /\ history' = Append(history, Call("write", None))
    /\ UNCHANGED <<nodes, edges>>

Next == Parse \/ Resolve \/ Remove \/ Write

Spec == Init /\ [][Next]_vars

----------------------------------------------------------------------------
(* Properties *)

IsWild(n) == contains(n, <<"*">>)

Edge(u, v) == BagIn(<<u, v>>, edges)

HasFile(n) == has_key(nodes[n], "file")

FileOf(n) == get(nodes[n], "file")

OpAt(i) == history[Len(history) - i].op

work_counter       == <<"w", ".", "c">>
work_counter_rtl   == <<"w", ".", "c", ".", "r">>
work_counter_behav == <<"w", ".", "c", ".", "b">>
work_counter_any   == <<"w", ".", "c", ".", "*">>
xwork_counter_rtl  == <<"x", "w", ".", "c", ".", "r">>
any_counter        == <<"*", ".", "c">>
work_missing       == <<"w", ".", "m">>

\* u is a library-wildcard identifier *.E
IsLibWildcard(u) ==
    /\ Len(u) >= 3
    /\ u[1] = "*"
    /\ u[2] = "."
    /\ \A i \in 3..Len(u) : u[i] \notin {"*", "."}

\* v holds ".E" after at least one character
HoldsEntity(v, u) ==
    \E i \in 2..(Len(v) - Len(u) + 2) :
        SubSeq(v, i, i + Len(u) - 2) = SubSeq(u, 2, Len(u))

\* C1 (as stated): after resolve(), a library-wildcard node *.E has no edge
\* to a first-level unit lib.E.
C1_NoEdgeToFirstLevel ==
    lastOp = "resolve" =>
        \A u, v \in DOMAIN nodes :
            (/\ IsLibWildcard(u)
             /\ ~IsWild(v)
             /\ count(v, ".") = 1
             /\ \E i \in 2..Len(v) :
                   SubSeq(v, i, Len(v)) = SubSeq(u, 2, Len(u)))
            => ~Edge(u, v)

\* C1 (amended): after resolve(), a library-wildcard node *.E has an edge to
\* exactly the wildcard-free nodes whose identifier holds ".E" after at least
\* one character: the architectures lib.E.A and the first-level unit lib.E
\* as well.
C1_WildcardResolution ==
    lastOp = "resolve" =>
        \A u, v \in DOMAIN nodes :
            IsLibWildcard(u) =>
                (Edge(u, v) <=> (~IsWild(v) /\ HoldsEntity(v, u)))

C1_Witness ==
    /\ lastOp = "resolve"
    /\ {work_counter, work_counter_rtl, work_counter_behav, any_counter}
          \subseteq DOMAIN nodes
    /\ Edge(any_counter, work_counter_rtl)
    /\ Edge(any_counter, work_counter_behav)
    /\ Edge(any_counter, work_counter)

Added(u, v) == CopiesIn(<<u, v>>, edges') > CopiesIn(<<u, v>>, edges)

\* C8 (as stated): resolve() adds the edge u -> v exactly when u holds a
\* wildcard, v holds none and the whole of v matches u.
C8_AnchoredMatch ==
    [][history' # history /\ lastOp' = "resolve" =>
          \A u, v \in DOMAIN nodes :
              Added(u, v) <=>
                  (IsWild(u) /\ ~IsWild(v) /\ re_fullmatch(u, v))]_vars

\* C8 (amended): resolve() adds the edge u -> v exactly when u holds a
\* wildcard, v holds none and some substring of v matches u; the match is
\* anchored at neither end of v.
C8_SubstringMatch ==
    [][history' # history /\ lastOp' = "resolve" =>
          \A u, v \in DOMAIN nodes :
              Added(u, v) <=>
                  (/\ IsWild(u)
                   /\ ~IsWild(v)
                   /\ \E i \in 1..Len(v) : \E j \in i..Len(v) :
                         re_fullmatch(u, SubSeq(v, i, j)))]_vars

C8_Witness ==
    /\ lastOp = "resolve"
    /\ Edge(work_counter_any, xwork_counter_rtl)
    /\ ~re_fullmatch(work_counter_any, xwork_counter_rtl)
    /\ Edge(any_counter, work_counter_rtl)
    /\ ~re_fullmatch(any_counter, work_counter_rtl)

SecondResolve ==
    /\ lastOp = "resolve"
    /\ history' # history
    /\ lastOp' = "resolve"

\* C5 (as stated): a second resolve() leaves the edge collection as the first
\* call left it.
C5_SecondResolveSameEdges ==
    [][SecondResolve => edges' = edges]_vars

\* C5 (amended): a second resolve() adds no edge between two nodes that the
\* first call left unconnected (the set of distinct edges and the nodes are
\* unchanged), but it appends one more copy of every edge from a wildcard
\* node to a node it refers to.
C5_SecondResolveNoNewPairs ==
    [][SecondResolve =>
          /\ nodes' = nodes
          /\ BagToSet(edges') = BagToSet(edges)
          /\ \A e \in BagToSet(edges) :
                CopiesIn(e, edges') =
                    CopiesIn(e, edges)
                    + (IF _is_refering_to(e[1], e[2]) THEN 1 ELSE 0)]_vars

C5_Witness ==
    /\ Len(history) >= 2
    /\ OpAt(0) = "resolve"
    /\ OpAt(1) = "resolve"
    /\ CopiesIn(<<work_counter_any, work_counter_rtl>>, edges) >= 2

\* C7: the edge collection never holds an edge from a node to itself.
C7_NoSelfLoops ==
    \A e \in BagToSet(edges) : e[1] # e[2]

C7_Witness ==
    /\ lastOp = "resolve"
    /\ \E i \in 1..Len(parsed) :
          LET pu == _parse_file(parsed[i])
          IN  {lower(p) : p \in pu[1]} \cap {lower(u) : u \in pu[2]} # {}
    /\ \E e \in BagToSet(edges) : IsWild(e[1])

----------------------------------------------------------------------------

EmptyGraph == Graph(<< >>, EmptyBag)

\* parse() of a set of files in one fixed order; todo is the graph so far and
\* the files still to parse
RECURSIVE parse_rest(_)
parse_rest(todo) ==
    IF todo.files = {} THEN todo.g
    ELSE LET first == CHOOSE x \in todo.files : TRUE
         IN  parse_rest([g |-> parse(todo.g, first),
                         files |-> todo.files \ {first}])

parse_all(files) == parse_rest([g |-> EmptyGraph, files |-> files])

OnlyParsed == \A i \in 1..Len(history) : history[i].op = "parse"

\* the parse() calls, by position, whose file defines n
Definers(n) ==
    {i \in 1..Len(parsed) : n \in {lower(p) : p \in _parse_file(parsed[i])[1]}}

Last(S) == CHOOSE i \in S : \A j \in S : j <= i

\* C3 (as stated): parse() of the same files in any order yields the same
\* nodes, the same file attribute on every node and the same set of edges.
C3_OrderIndependent ==
    OnlyParsed =>
        LET c == parse_all(Range(parsed))
        IN  /\ DOMAIN nodes = DOMAIN c.nodes
            /\ \A n \in DOMAIN nodes : nodes[n] = c.nodes[n]
            /\ BagToSet(edges) = BagToSet(c.edges)

\* C3 (amended): parse() of the same files in any order yields the same node
\* identifiers and the same edges, and the same file attribute on every node
\* that at most one of the files defines; a node that several files define
\* carries the file of the last of them to be parsed.
C3_OrderIndependentButFile ==
    OnlyParsed =>
        LET c == parse_all(Range(parsed))
        IN  /\ DOMAIN nodes = DOMAIN c.nodes
            /\ edges = c.edges
            /\ \A n \in DOMAIN nodes :
                  /\ Cardinality(Definers(n)) <= 1 => nodes[n] = c.nodes[n]
                  /\ Definers(n) # {} =>
                        nodes[n] = {<<"file", parsed[Last(Definers(n))]>>}
                  /\ Definers(n) = {} => nodes[n] = {}

C3_Witness ==
    /\ OnlyParsed
    /\ Len(parsed) >= 3
    /\ \E n \in DOMAIN nodes : Cardinality(Definers(n)) >= 2
    /\ \E n \in DOMAIN nodes : Cardinality(Definers(n)) = 1 /\ HasFile(n)

IsPruned(n) == \E unit \in StdUnits : startswith(n, unit \o <<".">>)

Clean(ns, es) ==
    /\ \A n \in DOMAIN ns : ~IsPruned(n)
    /\ \A e \in BagToSet(es) : ~IsPruned(e[1]) /\ ~IsPruned(e[2])

\* C4: after remove({"ieee", "std"}) no node of these libraries is left and
\* no edge has one as its source or target, and resolve() and
\* write_makefile_rules() after it keep the graph so.
C4_Pruning ==
    [][/\ (history' # history /\ lastOp' = "remove") => Clean(nodes', edges')
       /\ (Clean(nodes, edges) /\ lastOp' \in {"resolve", "write"})
             => Clean(nodes', edges')]_vars

C4_Witness ==
    /\ Len(history) >= 4
    /\ OpAt(0) = "write"
    /\ OpAt(1) = "resolve"
    /\ OpAt(2) = "remove"
    /\ "top.vhd" \in Range(parsed)
    /\ \E e \in BagToSet(edges) : IsWild(e[1])
    /\ Clean(nodes, edges)

\* the prerequisites C2 expects of the object rule of n
OtherFileDeps(n) ==
    {<<"du/">> \o replace_star(d) :
        d \in {x \in DOMAIN nodes : Edge(n, x) /\ FileOf(x) # FileOf(n)}}

ObjRulesOf(file) ==
    {r \in BagToSet(out.obj) : r.target = <<"obj/", file, ".o">>}

\* C2: the object rule written for a node n that has a file lists exactly the
\* design-unit tokens of the nodes n has an edge to and whose file differs
\* from n's; with counter.vhd (entity and architecture) and user.vhd (which
\* instantiates that architecture) user.vhd's rule lists the architecture and
\* counter.vhd's rules list nothing.
C2_SameFileExclusion ==
    lastOp = "write" =>
        /\ \A n \in DOMAIN nodes :
              HasFile(n) =>
                  \E r \in ObjRulesOf(FileOf(n)) :
                      BagToSet(r.prereqs) = OtherFileDeps(n)
        /\ \A r \in BagToSet(out.obj) :
              \E n \in DOMAIN nodes :
                  /\ HasFile(n)
                  /\ r.target = <<"obj/", FileOf(n), ".o">>
                  /\ BagToSet(r.prereqs) = OtherFileDeps(n)
        /\ Range(parsed) = {"counter.vhd", "user.vhd"} =>
              /\ \A r \in ObjRulesOf("counter.vhd") : r.prereqs = EmptyBag
              /\ \A r \in ObjRulesOf("user.vhd") :
                    BagToSet(r.prereqs) = {<<"du/">> \o work_counter_rtl}
              /\ ObjRulesOf("counter.vhd") # {}
              /\ ObjRulesOf("user.vhd") # {}

C2_Witness ==
    /\ lastOp = "write"
    /\ Range(parsed) = {"counter.vhd", "user.vhd"}
    /\ Edge(work_counter_rtl, work_counter)
    /\ FileOf(work_counter_rtl) = FileOf(work_counter)
    /\ ObjRulesOf("user.vhd") # {}

DuRulesOf(n) ==
    {r \in BagToSet(out.du) : r.target = <<"du/">> \o replace_star(n)}

\* C6: write_makefile_rules() writes, for every node without a file and
\* without a wildcard, one warning and no design-unit rule, and for every
\* other node exactly one design-unit rule and no warning; nothing else is
\* written, so a run in which every wildcard-free node has a file writes no
\* warning.
C6_MissingDefinition ==
    lastOp = "write" =>
        /\ \A n \in DOMAIN nodes :
              IF ~HasFile(n) /\ ~IsWild(n)
              THEN /\ CopiesIn(replace_star(n), out.err) = 1
                   /\ DuRulesOf(n) = {}
              ELSE /\ CopiesIn(replace_star(n), out.err) = 0
                   /\ \E r \in DuRulesOf(n) :
                         /\ DuRulesOf(n) = {r}
                         /\ CopiesIn(r, out.du) = 1
        /\ BagToSet(out.err) \subseteq {replace_star(n) : n \in DOMAIN nodes}
        /\ \A r \in BagToSet(out.du) : \E n \in DOMAIN nodes : r \in DuRulesOf(n)
        /\ (\A n \in DOMAIN nodes : ~IsWild(n) => HasFile(n))
              => out.err = EmptyBag

C6_Witness ==
    /\ lastOp = "write"
    /\ work_missing \in DOMAIN nodes
    /\ BagIn(work_missing, out.err)
    /\ \E n \in DOMAIN nodes : IsWild(n) /\ ~HasFile(n) /\ DuRulesOf(n) # {}
    /\ \E n \in DOMAIN nodes : HasFile(n) /\ DuRulesOf(n) # {}

\* the prerequisites the written rules give the target t
PrereqsOf(t) ==
    UNION {BagToSet(r.prereqs) : r \in {x \in BagToSet(out.obj) : x.target = t}}
    \cup {r.prereq : r \in {x \in BagToSet(out.du) :
                               x.target = t /\ x.prereq # <<>>}}

RECURSIVE Reach(_)
Reach(S) ==
    LET S2 == S \cup UNION {PrereqsOf(t) : t \in S}
    IN  IF S2 = S THEN S ELSE Reach(S2)

\* C9: when a unit c of file F has an edge to a wildcard node w without a
\* file, and w has a (resolved) edge to a unit v of another file G, the
\* written rules make F's object depend, directly or through design-unit
\* rules, on G's object.
C9_ResolvedDepsReachPlan ==
    lastOp = "write" =>
        \A c, w, v \in DOMAIN nodes :
            (/\ HasFile(c) /\ Edge(c, w)
             /\ IsWild(w) /\ ~HasFile(w) /\ Edge(w, v)
             /\ HasFile(v) /\ FileOf(v) # FileOf(c))
            => <<"obj/", FileOf(v), ".o">>
                   \in Reach({<<"obj/", FileOf(c), ".o">>})

\* C10: every design-unit token that an object rule lists as a prerequisite
\* is the target of a design-unit rule of the same output, and no node
\* warned about is listed as a prerequisite.
C10_NoDanglingPrereqs ==
    lastOp = "write" =>
        \A r \in BagToSet(out.obj) : \A t \in BagToSet(r.prereqs) :
            /\ \E d \in BagToSet(out.du) : d.target = t
            /\ \A e \in BagToSet(out.err) : t # <<"du/">> \o e

====
